---------------------------- MODULE Spec2Model ----------------------------
(***************************************************************************)
(* Model of src/src/components/Dashboard.jsx: the FHIR resource parsers,   *)
(* the LOINC registry, the trend generator, the status classifier and the  *)
(* Dashboard component's state (patient, loading, fhirStatus, vitals) with *)
(* its two handlers, loadPatient and the 3 s drift interval.               *)
(*                                                                         *)
(* Numbers are JavaScript doubles in the source.  The model keeps them as  *)
(* integers counted in thousandths (72 is 72000, 37.2 is 37200), which is  *)
(* exact for every quantity the model produces.  A JavaScript value is a   *)
(* record tagged by its type in field t.                                   *)
(***************************************************************************)
EXTENDS Integers, Sequences, FiniteSets, TLC

\* ------------------------------------------------------------------ bounds
\* Number of drift ticks the interval fires in a run.
MaxTicks == 1
\* Number of distinct streams Math.random() may follow within one handler.
NumSeeds == 1
\* The loadPatient invocations of a run, in the order they are made; the second
\* may be made while the first is still awaiting a response.
LoadIds == {1, 2}

\* ------------------------------------------------------- JavaScript values
U == [t |-> "undefined"]
Null == [t |-> "null"]
NaN == [t |-> "NaN"]
Num(n) == [t |-> "number", n |-> n]
Str(s) == [t |-> "string", s |-> s]
Arr(a) == [t |-> "array", a |-> a]

\* ToBoolean: what `x && ...` and `x || ...` test.
Truthy(v) ==
  CASE v.t = "undefined" -> FALSE
    [] v.t = "null" -> FALSE
    [] v.t = "NaN" -> FALSE
    [] v.t = "number" -> v.n # 0
    [] v.t = "string" -> v.s # ""
    [] OTHER -> TRUE

\* a || b
Or(a, b) == IF Truthy(a) THEN a ELSE b

\* arr?.[i] with the source's 0-based index; a missing array or element is undefined.
At(arr, i) ==
  IF arr.t # "array" THEN U
  ELSE IF i + 1 \in 1..Len(arr.a) THEN arr.a[i + 1] ELSE U

\* obj?.field: undefined when obj is undefined or null.
Get(obj, field) == IF obj.t \in {"undefined", "null"} THEN U ELSE obj[field]

\* ToString as string concatenation (`+` with a string operand) applies it.
ToStr(v) ==
  CASE v.t = "undefined" -> "undefined"
    [] v.t = "null" -> "null"
    [] v.t = "NaN" -> "NaN"
    [] OTHER -> v.s

\* Array.prototype.join on an array of strings.
RECURSIVE JoinSeq(_, _)
JoinSeq(a, sep) ==
  IF Len(a) = 0 THEN ""
  ELSE IF Len(a) = 1 THEN ToStr(a[1])
  ELSE ToStr(a[1]) \o sep \o JoinSeq(Tail(a), sep)

\* Array.prototype.find: the first element satisfying the test, else undefined;
\* hits is the set of the indices whose element satisfies the test.
Find(a, hits) ==
  IF hits = {} THEN U ELSE a[CHOOSE i \in hits : \A j \in hits : i <= j]

\* parseFloat of a number or of the decimal text toFixed produced.
ParseFloat(v) ==
  CASE v.t = "number" -> Num(v.n)
    [] v.t = "numstring" -> Num(v.n)
    [] OTHER -> NaN

\* x + d for a numeric x and a finite number d (thousandths).
Plus(v, d) == IF v.t = "number" THEN Num(v.n + d) ELSE NaN

\* Math.round: to the nearest integer, halves towards +infinity.
MathRound(v) ==
  IF v.t = "number" THEN Num(((v.n + 500) \div 1000) * 1000) ELSE NaN

\* Number.prototype.toFixed(1): a string holding the value to one decimal.
ToFixed1(v) ==
  IF v.t = "number" THEN [t |-> "numstring", n |-> ((v.n + 50) \div 100) * 100]
  ELSE [t |-> "numstring-NaN"]

Max2(a, b) == IF a >= b THEN a ELSE b
Min2(a, b) == IF a <= b THEN a ELSE b

\* Math.max(lo, Math.min(hi, x)), lo and hi in whole units.
Clamp(lo, hi, v) ==
  IF v.t = "number" THEN Num(Max2(lo * 1000, Min2(hi * 1000, v.n))) ELSE NaN

\* ------------------------------------------------------------ Math.random
\* Math.random() is a pseudo-random stream: the k-th call of a handler run
\* started with seed s returns Rnd(s, k), in thousandths of [0, 1).
Seeds == 0..(NumSeeds - 1)
Rnd(seed, k) == (seed * 250 + k * 370) % 1000

\* (Math.random() - 0.5) * factor, the factor given in tenths.
Jitter(seed, k, factorTenths) == ((Rnd(seed, k) - 500) * factorTenths) \div 10

\* ------------------------------------------------------- FHIR parsers
\* obj.code?.coding?.[0]?.code for a resource, a component or an identifier type.
FirstCode(cc) == Get(At(Get(cc, "coding"), 0), "code")

parseFhirPatient(resource) ==
  [ id |-> resource.id,
    name |-> Str(ToStr(IF Get(At(resource.name, 0), "given").t = "array"
                         THEN Str(JoinSeq(Get(At(resource.name, 0), "given").a, " "))
                         ELSE U)
                 \o " "
                 \o ToStr(Or(Get(At(resource.name, 0), "family"), Str("")))),
    gender |-> resource.gender,
    birthDate |-> resource.birthDate,
    mrn |-> Or(Get(IF resource.identifier.t = "array"
                     THEN Find(resource.identifier.a,
                               { i \in 1..Len(resource.identifier.a) :
                                   FirstCode(resource.identifier.a[i].type) = Str("MR") })
                     ELSE U, "value"),
               resource.id) ]

\* obs.component.find(c => c.code?.coding?.[0]?.code === code)
FindComponent(components, code) ==
  Find(components, { i \in 1..Len(components) : FirstCode(components[i].code) = Str(code) })

parseFhirObservation(obs) ==
  LET code == FirstCode(obs.code)
      display == Or(Get(At(Get(obs.code, "coding"), 0), "display"), Get(obs.code, "text"))
  IN IF Truthy(obs.valueQuantity)
       THEN [ code |-> code, display |-> display,
              value |-> obs.valueQuantity.value,
              unit |-> Or(obs.valueQuantity.unit, Str("")),
              systolic |-> U, diastolic |-> U,
              date |-> obs.effectiveDateTime ]
     ELSE IF Truthy(obs.component)
       THEN [ code |-> code, display |-> display,
              value |-> U, unit |-> U,
              systolic |-> Get(Get(FindComponent(obs.component.a, "8480-6"), "valueQuantity"), "value"),
              diastolic |-> Get(Get(FindComponent(obs.component.a, "8462-4"), "valueQuantity"), "value"),
              date |-> obs.effectiveDateTime ]
     ELSE [ code |-> code, display |-> display,
            value |-> Null, unit |-> Str(""),
            systolic |-> U, diastolic |-> U,
            date |-> obs.effectiveDateTime ]

\* VITAL_CODES[code]: the vital type of a LOINC code, undefined for any other key.
VITAL_CODES(code) ==
  CASE code = Str("8867-4") -> "hr"
    [] code = Str("2708-6") -> "spo2"
    [] code = Str("8310-5") -> "temp"
    [] code = Str("9279-1") -> "rr"
    [] code = Str("85354-9") -> "bp"
    [] code = Str("8480-6") -> "bpSys"
    [] code = Str("8462-4") -> "bpDia"
    [] OTHER -> "undefined"

\* ------------------------------------------------------- trend generator
Digit(d) == <<"0", "1", "2", "3", "4", "5", "6", "7", "8", "9">>[d + 1]
\* String(n).padStart(2, '0') for 0 <= n < 100.
PadStart2(n) == IF n < 10 THEN "0" \o Digit(n) ELSE Digit(n \div 10) \o Digit(n % 10)
TimeLabel(i) == PadStart2(i \div 2) \o ":" \o (IF i % 2 = 0 THEN "00" ELSE "30")

\* The default value of generateTrend's count parameter.
DefaultCount == 20

\* generateTrend(base, variance, count): the calls to Math.random() are the
\* k0-th .. (k0+count-1)-th of the handler run seeded with seed.  A point's value
\* is a finite number and is kept as its count of thousandths.
generateTrend(base, varianceTenths, count, seed, k0) ==
  [ i \in 1..count |->
      [ time |-> TimeLabel(i - 1),
        value |-> Plus(base, Jitter(seed, k0 + i - 1, varianceTenths)).n ] ]

\* ------------------------------------------------------- status classifier
\* A faulty getStatus: the critical comparisons are not strict.
getStatusInclusive(val, min, max) ==
  LET v == ParseFloat(val)
  IN IF v.t # "number" THEN "warning"
     ELSE IF v.n >= min.n /\ v.n <= max.n THEN "normal"
     ELSE IF 10 * v.n <= 9 * min.n \/ 10 * v.n >= 11 * max.n THEN "critical"
     ELSE "warning"

\* getStatus(val, min, max), min and max numbers: v < min * 0.9 is 10 v < 9 min
\* and v > max * 1.1 is 10 v > 11 max.  Every comparison with NaN is false.
getStatus(val, min, max) ==
  LET v == ParseFloat(val)
  IN IF v.t # "number" THEN "warning"
     ELSE IF v.n >= min.n /\ v.n <= max.n THEN "normal"
     ELSE IF 10 * v.n < 9 * min.n \/ 10 * v.n > 11 * max.n THEN "critical"
     ELSE "warning"


\* ------------------------------------------------------- component state
VARIABLES
  time,        \* Dashboard state `time`; the wall clock, counted in interval periods
  patient,     \* Dashboard state `patient`
  loading,     \* Dashboard state `loading`
  fhirStatus,  \* Dashboard state `fhirStatus`
  vitals,      \* Dashboard state `vitals`
  loads,       \* the invocations of loadPatient: position, argument, the render
               \* scope the invocation closes over, and its locals
  callArgs,    \* arguments of a direct call of a pure function
  callRet      \* what that call returned

vars == <<time, patient, loading, fhirStatus, vitals, loads, callArgs, callRet>>
dashboardVars == <<time, patient, loading, fhirStatus, vitals, loads>>

ScalarChannels == {"hr", "spo2", "temp", "rr"}
Channels == ScalarChannels \cup {"bp"}

\* useState initial value of vitals; the four generateTrend calls draw in order.
InitialVitals(seed) ==
  [ hr |-> [value |-> Num(72000), trend |-> generateTrend(Num(72000), 150, DefaultCount, seed, 0), source |-> "sim"],
    spo2 |-> [value |-> Num(98000), trend |-> generateTrend(Num(98000), 30, DefaultCount, seed, DefaultCount), source |-> "sim"],
    temp |-> [value |-> Num(37200), trend |-> generateTrend(Num(37200), 8, DefaultCount, seed, 2 * DefaultCount), source |-> "sim"],
    rr |-> [value |-> Num(16000), trend |-> generateTrend(Num(16000), 40, DefaultCount, seed, 3 * DefaultCount), source |-> "sim"],
    bp |-> [sys |-> Num(118000), dia |-> Num(76000), source |-> "sim"] ]

\* A loadPatient invocation that has not been made yet.
NotCalled == [pc |-> "idle", patientId |-> U, scope |-> U, patData |-> U, obsBundle |-> U]

InitDashboard(seed) ==
  /\ time = 0
  /\ patient = Null
  /\ loading = FALSE
  /\ fhirStatus = [connected |-> FALSE, lastSync |-> Null]
  /\ vitals = InitialVitals(seed)
  /\ loads = [i \in LoadIds |-> NotCalled]

Init ==
  /\ \E seed \in Seeds : InitDashboard(seed)
  /\ callArgs = <<>>
  /\ callRet = U

\* ------------------------------------------------------- server responses
Obj(fields) == [t |-> "object"] @@ fields
Coded(code) == Obj([coding |-> Arr(<<Obj([code |-> Str(code), display |-> U])>>), text |-> U])
Quantity(n) == Obj([value |-> Num(n), unit |-> Str("u")])
ScalarObs(code, n) ==
  Obj([code |-> Coded(code), valueQuantity |-> Quantity(n), component |-> U,
       effectiveDateTime |-> U])
Component(code, n) == Obj([code |-> Coded(code), valueQuantity |-> Quantity(n)])
PanelObs(components) ==
  Obj([code |-> Coded("85354-9"), valueQuantity |-> U, component |-> Arr(components),
       effectiveDateTime |-> U])
Bundle(entries) ==
  Obj([entry |-> Arr([i \in 1..Len(entries) |-> Obj([resource |-> entries[i]])])])

\* Observation search bundles the server may answer with.
ObsBundles ==
  { Obj([entry |-> U]),
    Bundle(<<ScalarObs("8867-4", 85000)>>),
    Bundle(<<ScalarObs("8867-4", 0)>>),
    Bundle(<<ScalarObs("29463-7", 70000), ScalarObs("8302-2", 170000)>>),
    Bundle(<<ScalarObs("8310-5", 38460), ScalarObs("2708-6", 96500), ScalarObs("9279-1", 18400)>>),
    Bundle(<<PanelObs(<<Component("8480-6", 120400), Component("8462-4", 80000)>>)>>),
    Bundle(<<PanelObs(<<Component("8480-6", 120000)>>)>>),
    Bundle(<<PanelObs(<<Component("8462-4", 80000)>>)>>) }

PatientIds == {"p1", "p2"}

MRType == Obj([coding |-> Arr(<<Obj([code |-> Str("MR")])>>)])
\* The Patient resource the server holds for an id.
PatientResources(id) ==
  IF id = "p1"
    THEN { Obj([id |-> Str(id),
                name |-> Arr(<<Obj([given |-> Arr(<<Str("John"), Str("Q")>>), family |-> Str("Smith")])>>),
                gender |-> Str("male"), birthDate |-> Str("1980-01-01"),
                identifier |-> Arr(<<Obj([type |-> MRType, value |-> Str("MRN-1")])>>)]) }
    ELSE { Obj([id |-> Str(id), name |-> U, gender |-> U, birthDate |-> U, identifier |-> U]) }

\* ------------------------------------------------------- loadPatient
\* A faulty FhirChannel: the new value and trend are written, the provenance
\* is not the server's.
FhirChannelUntagged(value, trend) == [value |-> value, trend |-> trend, source |-> "sim"]

\* The object literal { value, trend, source: 'fhir' } a matched channel is set to.
FhirChannel(value, trend) == [value |-> value, trend |-> trend, source |-> "fhir"]

\* The body of observations.forEach for one observation; k counts the
\* Math.random() calls made so far.  Returns <<newVitals, k>>.
MergeOne(nv, obs, seed, k) ==
  LET vitalType == VITAL_CODES(obs.code)
  IN IF vitalType = "hr" /\ Truthy(obs.value)
       THEN << [nv EXCEPT !.hr = FhirChannel(MathRound(obs.value),
                                   generateTrend(obs.value, 150, DefaultCount, seed, k))],
               k + DefaultCount >>
     ELSE IF vitalType = "spo2" /\ Truthy(obs.value)
       THEN << [nv EXCEPT !.spo2 = FhirChannel(MathRound(obs.value),
                                     generateTrend(obs.value, 30, DefaultCount, seed, k))],
               k + DefaultCount >>
     ELSE IF vitalType = "temp" /\ Truthy(obs.value)
       THEN << [nv EXCEPT !.temp = FhirChannel(ToFixed1(obs.value),
                                     generateTrend(obs.value, 8, DefaultCount, seed, k))],
               k + DefaultCount >>
     ELSE IF vitalType = "rr" /\ Truthy(obs.value)
       THEN << [nv EXCEPT !.rr = FhirChannel(MathRound(obs.value),
                                   generateTrend(obs.value, 40, DefaultCount, seed, k))],
               k + DefaultCount >>
     ELSE IF vitalType = "bp" /\ Truthy(obs.systolic)
       THEN << [nv EXCEPT !.bp = [sys |-> MathRound(obs.systolic),
                                  dia |-> MathRound(obs.diastolic),
                                  source |-> "fhir"]], k >>
     ELSE << nv, k >>

RECURSIVE MergeAll(_, _, _, _)
MergeAll(nv, observations, seed, k) ==
  IF Len(observations) = 0 THEN nv
  ELSE LET r == MergeOne(nv, observations[1], seed, k)
       IN MergeAll(r[1], Tail(observations), seed, r[2])

\* Line 182: obsBundle.entry.map(e => parseFhirObservation(e.resource)).
Observations(entry) == [i \in 1..Len(entry.a) |-> parseFhirObservation(entry.a[i].resource)]

\* Lines 183-197: newVitals, a copy of the vitals of the render scope the
\* invocation closed over, with the observations merged in.
MergedVitals(scopeVitals, entry, seed) == MergeAll(scopeVitals, Observations(entry), seed, 0)

\* onSelect(p.id): loadPatient runs up to its first await.
StartLoad(i, id) ==
  /\ loads[i].pc = "idle"
  /\ \A j \in LoadIds : j < i => loads[j].pc # "idle"
  /\ loading' = TRUE
  /\ loads' = [loads EXCEPT ![i] =
                 [pc |-> "fetchPatient", patientId |-> Str(id),
                  scope |-> [time |-> time, patient |-> patient, vitals |-> vitals],
                  patData |-> U, obsBundle |-> U]]
  /\ UNCHANGED <<time, patient, fhirStatus, vitals, callArgs, callRet>>

\* Line 174: the Patient fetch resolves.
PatientFetched(i) ==
  /\ loads[i].pc = "fetchPatient"
  /\ loads' = [loads EXCEPT ![i].pc = "patientJson"]
  /\ UNCHANGED <<time, patient, loading, fhirStatus, vitals, callArgs, callRet>>

\* A PatientParsed with a sequence guard: the response of an invocation that a
\* later one has superseded is not shown.
PatientParsedIfCurrent(i, resource) ==
  /\ loads[i].pc = "patientJson"
  /\ resource.id = loads[i].patientId
  /\ patient' = IF \E j \in LoadIds : j > i /\ loads[j].pc # "idle"
                  THEN patient
                  ELSE parseFhirPatient(resource)
  /\ loads' = [loads EXCEPT ![i].pc = "fetchObs", ![i].patData = resource]
  /\ UNCHANGED <<time, loading, fhirStatus, vitals, callArgs, callRet>>

\* Lines 175-176: the Patient body parses; setPatient; the Observation fetch starts.
PatientParsed(i, resource) ==
  /\ loads[i].pc = "patientJson"
  /\ resource.id = loads[i].patientId
  /\ patient' = parseFhirPatient(resource)
  /\ loads' = [loads EXCEPT ![i].pc = "fetchObs", ![i].patData = resource]
  /\ UNCHANGED <<time, loading, fhirStatus, vitals, callArgs, callRet>>

\* Line 178: the Observation fetch resolves.
ObsFetched(i) ==
  /\ loads[i].pc = "fetchObs"
  /\ loads' = [loads EXCEPT ![i].pc = "obsJson"]
  /\ UNCHANGED <<time, patient, loading, fhirStatus, vitals, callArgs, callRet>>

\* Lines 179-201 and 206: the bundle parses, the merge is applied, the load ends.
ObsParsed(i, obsBundle, seed) ==
  /\ loads[i].pc = "obsJson"
  /\ vitals' = IF Truthy(obsBundle.entry)
                 THEN MergedVitals(loads[i].scope.vitals, obsBundle.entry, seed)
                 ELSE vitals
  /\ fhirStatus' = [connected |-> TRUE, lastSync |-> Num(time)]
  /\ loading' = FALSE
  /\ loads' = [loads EXCEPT ![i].pc = "done", ![i].obsBundle = obsBundle]
  /\ UNCHANGED <<time, patient, callArgs, callRet>>

AwaitPoints == {"fetchPatient", "patientJson", "fetchObs", "obsJson"}

\* Lines 202-206: the awaited fetch or json() rejects; the catch block runs.
LoadFailed(i) ==
  /\ loads[i].pc \in AwaitPoints
  /\ fhirStatus' = [connected |-> FALSE, lastSync |-> Null]
  /\ loading' = FALSE
  /\ loads' = [loads EXCEPT ![i].pc = "failed"]
  /\ UNCHANGED <<time, patient, vitals, callArgs, callRet>>

\* ------------------------------------------------------- drift interval
\* A faulty AdvanceTrend: the new point is appended and no point leaves.
AdvanceTrendKeepingOldest(trend, point) == Append(trend, point)

\* [...trend.slice(1), point]: the oldest point leaves, the new one is appended.
AdvanceTrend(trend, point) == Append(Tail(trend), point)

\* A faulty DriftScalar: the channel is rebuilt without the spread of ch and
\* tagged as simulated.
DriftScalarDemoting(ch, newValue, trendDelta) ==
  [ value |-> newValue,
    trend |-> Append(Tail(ch.trend),
                     [time |-> "now", value |-> Plus(ParseFloat(ch.value), trendDelta).n]),
    source |-> "sim" ]

\* A faulty DriftScalar: the appended point is taken from the new current
\* value, not from the previous one.
DriftScalarFromNewValue(ch, newValue, trendDelta) ==
  [ ch EXCEPT
      !.value = newValue,
      !.trend = AdvanceTrend(ch.trend,
                             [time |-> "now", value |-> Plus(ParseFloat(newValue), trendDelta).n]) ]

\* { ...ch, value: newValue, trend: [...] } for a scalar channel; the appended
\* point is parseFloat(ch.value) plus its own random delta.
DriftScalar(ch, newValue, trendDelta) ==
  [ ch EXCEPT
      !.value = newValue,
      !.trend = AdvanceTrend(ch.trend,
                             [time |-> "now", value |-> Plus(ParseFloat(ch.value), trendDelta).n]) ]

\* Lines 212-218: the updater passed to setVitals; its ten Math.random() calls
\* are made in source order.
DriftVitals(v, seed) ==
  [ hr |-> DriftScalar(v.hr,
                       MathRound(Plus(ParseFloat(v.hr.value), Jitter(seed, 0, 40))),
                       Jitter(seed, 1, 50)),
    spo2 |-> DriftScalar(v.spo2,
                         Clamp(94, 100, MathRound(Plus(ParseFloat(v.spo2.value), Jitter(seed, 2, 20)))),
                         Jitter(seed, 3, 20)),
    temp |-> DriftScalar(v.temp,
                         ToFixed1(Plus(ParseFloat(v.temp.value), Jitter(seed, 4, 1))),
                         Jitter(seed, 5, 2)),
    rr |-> DriftScalar(v.rr,
                       MathRound(Plus(ParseFloat(v.rr.value), Jitter(seed, 6, 20))),
                       Jitter(seed, 7, 20)),
    bp |-> [v.bp EXCEPT !.sys = MathRound(Plus(v.bp.sys, Jitter(seed, 8, 40))),
                        !.dia = MathRound(Plus(v.bp.dia, Jitter(seed, 9, 30)))] ]

\* Lines 210-219: one firing of the interval.
DriftTick(seed) ==
  /\ time < MaxTicks
  /\ time' = time + 1
  /\ vitals' = DriftVitals(vitals, seed)
  /\ UNCHANGED <<patient, loading, fhirStatus, loads, callArgs, callRet>>

Next ==
  \/ \E i \in LoadIds, id \in PatientIds : StartLoad(i, id)
  \/ \E i \in LoadIds : PatientFetched(i)
  \/ \E i \in LoadIds : \E id \in PatientIds : \E r \in PatientResources(id) : PatientParsed(i, r)
  \/ \E i \in LoadIds : ObsFetched(i)
  \/ \E i \in LoadIds : \E b \in ObsBundles, seed \in Seeds : ObsParsed(i, b, seed)
  \/ \E i \in LoadIds : LoadFailed(i)
  \/ \E seed \in Seeds : DriftTick(seed)

Spec == Init /\ [][Next]_vars

\* ------------------------------------------------------- direct calls
\* getStatus as the render calls it (lines 281-284), on arguments of a wider
\* range than the four the render passes: whole and half values against
\* whole-number ranges, the ranges 60..100 and 12..20 of the render among them.
StatusRanges == { <<60, 100>>, <<12, 20>>, <<0, 10>>, <<10, 10>>, <<-10, 10>>, <<-10, -5>> }
StatusValues == { 500 * h : h \in -30..230 }
StatusArgs ==
  { <<Num(v), Num(1000 * r[1]), Num(1000 * r[2])>> : v \in StatusValues, r \in StatusRanges }

InitStatus ==
  /\ InitDashboard(0)
  /\ callArgs \in StatusArgs
  /\ callRet = U

CallGetStatus ==
  /\ callRet = U
  /\ callRet' = Str(getStatus(callArgs[1], callArgs[2], callArgs[3]))
  /\ UNCHANGED <<dashboardVars, callArgs>>

SpecStatus == InitStatus /\ [][CallGetStatus]_vars

\* parseFhirPatient as searchPatients (line 103) and loadPatient (line 176) call
\* it, on Patient resources with every combination of name, gender, birthDate
\* and identifier present or missing.
HumanNames ==
  { U,
    Arr(<<>>),
    Arr(<<Obj([given |-> U, family |-> Str("Smith")])>>),
    Arr(<<Obj([given |-> Arr(<<Str("John")>>), family |-> U])>>),
    Arr(<<Obj([given |-> Arr(<<Str("John"), Str("Q")>>), family |-> Str("Smith")]),
          Obj([given |-> Arr(<<Str("Johnny")>>), family |-> U])>>) }
SSType == Obj([coding |-> Arr(<<Obj([code |-> Str("SS")])>>)])
Identifiers ==
  { U,
    Arr(<<>>),
    Arr(<<Obj([type |-> SSType, value |-> Str("SSN-9")])>>),
    Arr(<<Obj([type |-> MRType, value |-> Str("MRN-1")])>>),
    Arr(<<Obj([type |-> SSType, value |-> Str("SSN-9")]),
          Obj([type |-> MRType, value |-> Str("MRN-1")]),
          Obj([type |-> MRType, value |-> Str("MRN-2")])>>),
    Arr(<<Obj([type |-> U, value |-> Str("X-7")]),
          Obj([type |-> MRType, value |-> Str("MRN-2")])>>) }
PatientArgs ==
  { <<Obj([id |-> Str("p1"), name |-> n, gender |-> g, birthDate |-> b, identifier |-> i])>> :
      n \in HumanNames, g \in {U, Str("female")}, b \in {U, Str("1980-01-01")},
      i \in Identifiers }

InitPatient ==
  /\ InitDashboard(0)
  /\ callArgs \in PatientArgs
  /\ callRet = U

CallParseFhirPatient ==
  /\ callRet = U
  /\ callRet' = parseFhirPatient(callArgs[1])
  /\ UNCHANGED <<dashboardVars, callArgs>>

SpecPatient == InitPatient /\ [][CallParseFhirPatient]_vars

\* ------------------------------------------------------- properties
\* The step in which invocation i applies its merge and ends successfully.
Applied(i) == loads[i].pc = "obsJson" /\ loads'[i].pc = "done"
\* A step of the drift interval.
TickStep == time' # time
\* The observation records of a bundle (none when the bundle has no entry).
BundleObs(b) == IF Truthy(b.entry) THEN Observations(b.entry) ELSE <<>>
\* Some observation of the bundle resolves to channel c.
MatchedIn(b, c) == \E k \in 1..Len(BundleObs(b)) : VITAL_CODES(BundleObs(b)[k].code) = c
\* The bundle has observations and none of them carries a registered code.
OnlyUnknown(b) ==
  /\ Len(BundleObs(b)) > 0
  /\ \A k \in 1..Len(BundleObs(b)) : VITAL_CODES(BundleObs(b)[k].code) = "undefined"
\* Per-channel precision and trend variance (in tenths) of the merge.
Rounded(c, v) == IF c = "temp" THEN ToFixed1(v) ELSE MathRound(v)
Variance(c) == CASE c = "hr" -> 150 [] c = "spo2" -> 30 [] c = "temp" -> 8 [] c = "rr" -> 40
\* trend is a series generateTrend produces around base for channel c.
FreshAround(trend, base, c) ==
  \E seed \in Seeds, n \in 0..3 :
    trend = generateTrend(base, Variance(c), DefaultCount, seed, n * DefaultCount)
\* Channel c of snapshot v was written by the merge from a numeric observation of b.
ServerWritten(v, b, c) ==
  /\ v[c].source = "fhir"
  /\ \E k \in 1..Len(BundleObs(b)) :
       LET obs == BundleObs(b)[k]
       IN /\ VITAL_CODES(obs.code) = c
          /\ obs.value.t = "number"
          /\ v[c].value = Rounded(c, obs.value)
          /\ FreshAround(v[c].trend, obs.value, c)
IsInteger(v) == v.t = "number" /\ v.n % 1000 = 0
\* An absent text: undefined, null or the empty string.
Absent(v) == v.t \in {"undefined", "null"} \/ v = Str("")

\* C1: a load that fails at any await leaves the vitals snapshot and the
\* patient record as they were when the load started; only the connectivity
\* status changes, to disconnected.  (Stated for a load during which no drift
\* tick fired and no other load ran, so that every change is the load's own.)
C1_FailedLoadChangesOnlyStatus ==
  \A i \in LoadIds :
    ( /\ loads[i].pc = "failed"
      /\ loads[i].scope.time = time
      /\ \A j \in LoadIds \ {i} : loads[j].pc = "idle" )
    => /\ vitals = loads[i].scope.vitals
       /\ patient = loads[i].scope.patient
       /\ loading = FALSE
       /\ fhirStatus = [connected |-> FALSE, lastSync |-> Null]

\* C2: when a successful load applies its merge, every channel with no matching
\* observation in the bundle keeps the value, trend and provenance it had in
\* the snapshot immediately before the merge was applied.
C2_UnmatchedChannelsKeepPriorState ==
  [][ \A i \in LoadIds :
        Applied(i) =>
          \A c \in Channels :
            ~MatchedIn(loads'[i].obsBundle, c) => vitals'[c] = vitals[c] ]_vars

\* C3: a drift tick leaves the provenance of all five channels unchanged, and a
\* channel's provenance changes only in a step that applies a successful load
\* (so never in a tick and never in a failed load).
C3_ProvenanceChangesOnlyOnSuccessfulLoad ==
  [][ /\ TickStep => \A c \in Channels : vitals'[c].source = vitals[c].source
      /\ (\E c \in Channels : vitals'[c].source # vitals[c].source)
           => \E i \in LoadIds : Applied(i) ]_vars

\* C3 witness: a drift tick has advanced a server-sourced channel and a load has failed.
C3_Witness ==
  /\ vitals.hr.source = "fhir"
  /\ vitals.hr.trend[DefaultCount].time = "now"
  /\ \E i \in LoadIds : loads[i].pc = "failed"

\* C4: a load whose bundle holds only observations with unregistered LOINC
\* codes leaves all five channels (value, trend, provenance) unchanged.
C4_UnknownCodesAlterNothing ==
  [][ \A i \in LoadIds :
        (Applied(i) /\ OnlyUnknown(loads'[i].obsBundle)) => vitals' = vitals ]_vars

\* C5: after a successful load, every scalar channel for which the bundle holds
\* an observation with a numeric value (0 included) has provenance server, the
\* per-channel rounding of such a value, and a fresh trend around it.
C5_NumericObservationSetsChannel ==
  [][ \A i \in LoadIds :
        Applied(i) =>
          \A c \in ScalarChannels :
            (\E k \in 1..Len(BundleObs(loads'[i].obsBundle)) :
               /\ VITAL_CODES(BundleObs(loads'[i].obsBundle)[k].code) = c
               /\ BundleObs(loads'[i].obsBundle)[k].value.t = "number")
            => ServerWritten(vitals', loads'[i].obsBundle, c) ]_vars

\* The classifier's three verdicts against the claim's conditions, for a
\* returned call.
StatusIs(verdict, cond) == (callRet = Str(verdict)) <=> cond
StatusExample(v, lo, hi, verdict) ==
  callArgs = <<Num(1000 * v), Num(1000 * lo), Num(1000 * hi)>> => callRet = Str(verdict)
StatusExamples ==
  /\ StatusExample(72, 60, 100, "normal")
  /\ StatusExample(59, 60, 100, "warning")
  /\ StatusExample(50, 60, 100, "critical")
  /\ StatusExample(60, 60, 100, "normal")
  /\ StatusExample(54, 60, 100, "warning")
  /\ StatusExample(110, 60, 100, "warning")
InBand == callArgs[2].n <= callArgs[1].n /\ callArgs[1].n <= callArgs[3].n
BeyondMargin ==
  \/ 10 * callArgs[1].n < 9 * callArgs[2].n
  \/ 10 * callArgs[1].n > 11 * callArgs[3].n

C7_TrendLength ==
  \A c \in ScalarChannels : Len(vitals[c].trend) = DefaultCount

\* C7 witness: every tick of the run has fired, one load was merged, one failed.
C7_Witness ==
  /\ time = MaxTicks
  /\ \E i \in LoadIds : loads[i].pc = "done" /\ Truthy(loads[i].obsBundle.entry)
  /\ \E i \in LoadIds : loads[i].pc = "failed"
  /\ \E c \in ScalarChannels : vitals[c].source = "fhir"

\* C8: a merge and a drift tick are each one step on a whole snapshot.  Every
\* snapshot holds the five channels; a merge step leaves each channel either
\* as a snapshot held it (the current one or the one the load started from) or
\* wholly server-written (value, trend and provenance together); a tick step
\* advances every scalar channel of the snapshot before it by one point.
C8_SnapshotUpdatesAreWhole ==
  [][ /\ DOMAIN vitals' = Channels
      /\ \A i \in LoadIds :
           Applied(i) =>
             /\ \A c \in ScalarChannels :
                  \/ vitals'[c] = vitals[c]
                  \/ vitals'[c] = loads[i].scope.vitals[c]
                  \/ ServerWritten(vitals', loads'[i].obsBundle, c)
             /\ \/ vitals'.bp = vitals.bp
                \/ vitals'.bp = loads[i].scope.vitals.bp
                \/ /\ vitals'.bp.source = "fhir"
                   /\ \E k \in 1..Len(BundleObs(loads'[i].obsBundle)) :
                        LET obs == BundleObs(loads'[i].obsBundle)[k]
                        IN /\ VITAL_CODES(obs.code) = "bp"
                           /\ vitals'.bp.sys = MathRound(obs.systolic)
                           /\ vitals'.bp.dia = MathRound(obs.diastolic)
      /\ TickStep =>
           \A c \in ScalarChannels :
             /\ vitals'[c].source = vitals[c].source
             /\ vitals'[c].trend[DefaultCount].time = "now"
             /\ SubSeq(vitals'[c].trend, 1, DefaultCount - 1) = Tail(vitals[c].trend) ]_vars

\* C8 witness: a load that started before a drift tick has merged a heart-rate
\* observation after it; hr is server-written, spo2 is as the load captured it.
C8_Witness ==
  \E i \in LoadIds :
    /\ loads[i].pc = "done"
    /\ loads[i].scope.time < time
    /\ vitals.hr.source = "fhir"
    /\ vitals.hr.trend[DefaultCount].time # "now"
    /\ vitals.spo2 = loads[i].scope.vitals.spo2

\* C9: in every reachable snapshot the bp channel's systolic and diastolic
\* values are both integers.
C9_BloodPressureIntegers ==
  IsInteger(vitals.bp.sys) /\ IsInteger(vitals.bp.dia)

\* C10: parseFhirPatient does not fail, and the record it returns has name,
\* gender and birth date absent exactly for the missing fields, and as mrn the
\* value of the first identifier of type MR or else the resource id.
C10_MissingFieldsAreAbsent ==
  callRet # U =>
    LET r == callArgs[1]
        mr == IF r.identifier.t = "array"
                THEN Find(r.identifier.a,
                          { i \in 1..Len(r.identifier.a) : FirstCode(r.identifier.a[i].type) = Str("MR") })
                ELSE U
    IN /\ Absent(callRet.name) <=> (At(r.name, 0) = U)
       /\ Absent(callRet.gender) <=> (r.gender = U)
       /\ Absent(callRet.birthDate) <=> (r.birthDate = U)
       /\ callRet.mrn = (IF mr = U THEN r.id ELSE mr.value)

\* The step in which invocation i receives its Patient resource.
PatientShown(i) == loads[i].pc = "patientJson" /\ loads'[i].pc = "fetchObs"

\* C11: loads are neither cancelled nor sequence-guarded.  Whatever other
\* invocation was made in the meantime, a Patient response sets the current
\* patient to the patient its own invocation asked for, and a merge puts every
\* channel its bundle does not match back to the snapshot its own invocation
\* captured; so the load whose responses arrive last decides what is shown.
C11_LastResponseWins ==
  [][ \A i \in LoadIds :
        /\ PatientShown(i) =>
             /\ patient' = parseFhirPatient(loads'[i].patData)
             /\ patient'.id = loads[i].patientId
        /\ (Applied(i) /\ Truthy(loads'[i].obsBundle.entry)) =>
             LET obs == BundleObs(loads'[i].obsBundle)
                 matched == { VITAL_CODES(obs[k].code) : k \in 1..Len(obs) }
             IN \A c \in Channels \ matched :
                  vitals'[c] = loads[i].scope.vitals[c] ]_vars

\* C11 witness: load 2 (patient B) was requested after load 1 (patient A) and
\* before any Patient response; both have completed; B's bundle carried a
\* heart rate the merge accepts; the dashboard shows patient A, hr is still
\* simulated and temp is server-written by A's merge.
C11_Witness ==
  /\ loads[1].pc = "done" /\ loads[2].pc = "done"
  /\ loads[1].patientId # loads[2].patientId
  /\ loads[2].scope.patient = Null
  /\ patient.id = loads[1].patientId
  /\ \E k \in 1..Len(BundleObs(loads[2].obsBundle)) :
       /\ VITAL_CODES(BundleObs(loads[2].obsBundle)[k].code) = "hr"
       /\ Truthy(BundleObs(loads[2].obsBundle)[k].value)
  /\ vitals.hr = loads[1].scope.vitals.hr
  /\ vitals.hr.source = "sim"
  /\ ServerWritten(vitals, loads[1].obsBundle, "temp")

\* The factors (in tenths) of the drift's two random deltas per scalar channel:
\* the one added to the current value and the one added to the appended point.
ValueFactor(c) == CASE c = "hr" -> 40 [] c = "spo2" -> 20 [] c = "temp" -> 1 [] c = "rr" -> 20
PointFactor(c) == CASE c = "hr" -> 50 [] c = "spo2" -> 20 [] c = "temp" -> 2 [] c = "rr" -> 20
\* The largest size, in thousandths, of (Math.random() - 0.5) * factor.
HalfRange(factorTenths) == factorTenths * 50
\* The drift's rounding of a channel's new value: to the channel's precision,
\* and for spo2 clamped to 94..100.
DriftRounded(c, x) == IF c = "spo2" THEN Clamp(94, 100, MathRound(x)) ELSE Rounded(c, x)
\* The point a drift tick appended to channel c.
Endpoint(v, c) == v[c].trend[DefaultCount]
\* The appended point of c is the previous current value plus one bounded delta.
EndpointFromPrevious(c) ==
  /\ Endpoint(vitals', c).time = "now"
  /\ Endpoint(vitals', c).value - ParseFloat(vitals[c].value).n <= HalfRange(PointFactor(c))
  /\ ParseFloat(vitals[c].value).n - Endpoint(vitals', c).value <= HalfRange(PointFactor(c))

\* C12 (as claimed): after every drift tick, for each scalar channel, the
\* appended point is the previous current value plus one bounded random delta,
\* and the new current value is that endpoint's value rounded to the channel's
\* precision and clamped to the channel's bounds.
C12_ValueDerivedFromEndpoint ==
  [][ TickStep =>
        \A c \in ScalarChannels :
          /\ EndpointFromPrevious(c)
          /\ vitals'[c].value = DriftRounded(c, Num(Endpoint(vitals', c).value)) ]_vars

\* C12 (amended): after every drift tick, for each scalar channel, the appended
\* point is the previous current value plus one bounded random delta, and the
\* new current value is the previous current value plus a delta of its own,
\* bounded by half the channel's value factor, rounded to the channel's
\* precision (and clamped to 94..100 for spo2 only).
C12_ValueAndEndpointFromPrevious ==
  [][ TickStep =>
        \A c \in ScalarChannels :
          LET prev == ParseFloat(vitals[c].value)
              new == ParseFloat(vitals'[c].value)
          IN /\ EndpointFromPrevious(c)
             /\ vitals'[c].value = DriftRounded(c, new)
             /\ DriftRounded(c, Plus(prev, -HalfRange(ValueFactor(c)))).n <= new.n
             /\ new.n <= DriftRounded(c, Plus(prev, HalfRange(ValueFactor(c)))).n ]_vars

\* C12 witness: a drift tick has fired and the heart rate shown is not the
\* rounding of the point it appended.
C12_Witness ==
  /\ time > 0
  /\ Endpoint(vitals, "hr").time = "now"
  /\ vitals.hr.value # MathRound(Num(Endpoint(vitals, "hr").value))

=============================================================================
